---- MODULE Spec2Model ----
(***************************************************************************)
(* The two release-engineering scripts of the repository:                  *)
(*   Scripts/release_readiness.py  (the Readiness Checker)                 *)
(*   Scripts/update_build_hash.py  (the Build Stamper)                     *)
(* Text is modelled as sequences of tokens (strings), a tool's output as a *)
(* sequence of lines, and a regular expression by what it matches on those *)
(* tokens.  Coverage fractions are integers in units of 1/100000.          *)
(***************************************************************************)
EXTENDS Integers, Sequences, FiniteSets, TLC

VARIABLES
  program,        \* which script this process runs
  pc,             \* the top-level statement the process is at
  release_ready,  \* release_readiness.py: the global flag
  cwd,            \* the process's working directory
  printed,        \* what the process has printed, one entry per print call
  cmds,           \* the Command Results exec_cmd has returned so far, in order
  exit_code,      \* the process's exit status, -1 while it runs
  file,           \* Example/JacquardSDK/BuildHash.json on disk
  handle,         \* update_build_hash.py: the open file object's buffer
  git,            \* update_build_hash.py: global git
  sha,            \* update_build_hash.py: global sha
  date            \* update_build_hash.py: global date

vars == <<program, pc, release_ready, cwd, printed, cmds, exit_code, file,
          handle, git, sha, date>>

-----------------------------------------------------------------------------
(* Bounds of the model.                                                    *)

MaxLintLines == 2

MaxDocLines == 2

MaxVariedFiles == 2

-----------------------------------------------------------------------------
(* Program constants.                                                      *)

\* minimum_code_coverage = 0.8, in units of 1/100000
minimum_code_coverage == 80000

\* assert len(files) > 5
MinReportFiles == 5

untestable_files ==
  { <<"JacquardSDK/", "Classes/CentralManagerImplementation.swift">>,
    <<"JacquardSDK/", "Classes/Internal/Transport/PeripheralImplementation.swift">>,
    <<"JacquardSDK/", "Classes/Internal/Transport/Peripheral.swift">>,
    <<"JacquardSDK/", "Protobuf/jacquard.pb.swift">>,
    <<"JacquardSDK/", "Protobuf/publicSdk.pb.swift">> }

-----------------------------------------------------------------------------
(* The commands the scripts hand to exec_cmd.                              *)

GitRootCmd == "git rev-parse --show-toplevel"
PreCommitCmd == "./Scripts/pre_commit.sh"
SwiftFormatCmd == "swift-format lint --recursive JacquardSDK/Classes"
PodInstallCmd == "pod install"
JazzyCmd == "jazzy --config jazzy.yaml"
BuildCmd == "xcodebuild ... clean build test ... |grep .xcresult"
XccovCmd == "xcrun xccov view --report --files-for-target JacquardSDK.framework --json"
TodoWithoutBugCmd == "find . -name ... |xargs -0 grep -i TODO|egrep -v 'b/'|wc -l"
TodoWithBugCmd == "find . -name ... |xargs -0 grep -i TODO|egrep 'b/'|wc -l"
WhichGitCmd == "xcrun which git"
GitShaCmd == "{git} rev-parse --short HEAD"
GitDateCmd == "{git} show -s --format=%ci HEAD"

-----------------------------------------------------------------------------
(* Python's string operations, on token sequences.                         *)

Whitespace == {" ", "\n"}

RECURSIVE rstrip(_)
rstrip(s) ==
  IF s # <<>> /\ s[Len(s)] \in Whitespace
    THEN rstrip(SubSeq(s, 1, Len(s) - 1))
    ELSE s

RECURSIVE lstrip(_)
lstrip(s) ==
  IF s # <<>> /\ s[1] \in Whitespace THEN lstrip(Tail(s)) ELSE s

strip(s) == lstrip(rstrip(s))

\* The least index of tok in s from index i on, 0 when there is none.
RECURSIVE IndexFrom(_, _, _)
IndexFrom(s, tok, i) ==
  IF i > Len(s) THEN 0
  ELSE IF s[i] = tok THEN i
  ELSE IndexFrom(s, tok, i + 1)

\* The greatest index of tok in s up to index i, 0 when there is none.
RECURSIVE LastIndexUpTo(_, _, _)
LastIndexUpTo(s, tok, i) ==
  IF i < 1 THEN 0
  ELSE IF s[i] = tok THEN i
  ELSE LastIndexUpTo(s, tok, i - 1)

\* re.compile(r"JacquardSDK/.*").search(s): group(0), or <<>> for no match.
\* The match starts at the first "JacquardSDK/" and runs to the end of s.
path_re_search(s) ==
  LET i == IndexFrom(s, "JacquardSDK/", 1)
  IN  IF i = 0 THEN <<>> ELSE SubSeq(s, i, Len(s))

\* re.compile(r"NoBlockComments").search(line) is not None
ignore_re_search(line) == IndexFrom(line, "NoBlockComments", 1) # 0

Digits == {"100", "99", "0"}

\* re.compile(r"^([0-9]+)% documentation coverage").search(line): group(1),
\* or "" for no match.  The pattern is anchored at the start of the line.
percentage_re_search(line) ==
  IF    Len(line) >= 2 /\ line[1] \in Digits
     /\ line[2] = "% documentation coverage"
    THEN line[1]
    ELSE ""

\* re.search(r"/.*\.xcresult", line): group(0), or <<>> for no match: from
\* the first "/" to the last ".xcresult" after it.
RECURSIVE xcresult_re_search(_)
xcresult_re_search(lines) ==
  IF lines = <<>> THEN <<>>
  ELSE LET line == Head(lines)
           i == IndexFrom(line, "/", 1)
           j == LastIndexUpTo(line, ".xcresult", Len(line))
       IN  IF i # 0 /\ j > i
             THEN SubSeq(line, i, j)
             ELSE xcresult_re_search(Tail(lines))

-----------------------------------------------------------------------------
(* The process state the functions of the scripts act on.                  *)

\* One print call: its format text and the values formatted into it.
Chunk(text, args) == [text |-> text, args |-> args]

print(st, text, args) ==
  [st EXCEPT !.printed = Append(@, Chunk(text, args))]

\* exec_cmd(cmd) returning r: the call is recorded in cmds.
exec_cmd(st, cmd, r) ==
  [st EXCEPT !.cmds = Append(@, [cmd |-> cmd, exit_code |-> r.exit_code,
                                  stdout |-> r.stdout, stderr |-> r.stderr])]

\* A failed assert, or any other uncaught exception.
abort(st) == [st EXCEPT !.aborted = TRUE]

\* A variant of cd_to_git_root without its assert.
cd_to_git_root_unchecked(st, root) ==
  LET s1 == exec_cmd(st, GitRootCmd, root)
  IN  [s1 EXCEPT !.cwd = rstrip(root.stdout)]

cd_to_git_root(st, root) ==
  LET s1 == exec_cmd(st, GitRootCmd, root)
  IN  IF root.exit_code # 0
        THEN abort(s1)
        ELSE [s1 EXCEPT !.cwd = rstrip(root.stdout)]

\* os.chdir("Example")
chdir_Example(st) == [st EXCEPT !.cwd = Append(@, "/Example")]

-----------------------------------------------------------------------------
(* release_readiness.py: the checks.                                       *)

\* A variant of check_pre_commit that asserts the script's exit status.
check_pre_commit_asserting(st, root, r) ==
  LET s1 == print(st, "Pre_commit check: ", <<>>)
      s2 == cd_to_git_root(s1, root)
      s3 == exec_cmd(s2, PreCommitCmd, r)
  IN  IF s2.aborted THEN s2
      ELSE IF r.exit_code # 0
        THEN abort([print(print(s3, "pre_commit.sh failed", <<>>), "%s", r.stdout)
                      EXCEPT !.ready = FALSE])
        ELSE print(s3, "ok", <<>>)

check_pre_commit(st, root, r) ==
  LET s1 == print(st, "Pre_commit check: ", <<>>)
      s2 == cd_to_git_root(s1, root)
      s3 == exec_cmd(s2, PreCommitCmd, r)
  IN  IF s2.aborted THEN s2
      ELSE IF r.exit_code # 0
        THEN [print(print(s3, "pre_commit.sh failed", <<>>), "%s", r.stdout)
                EXCEPT !.ready = FALSE]
        ELSE print(s3, "ok", <<>>)

\* A variant of swift_format_loop that does not skip the ignored rule.
RECURSIVE swift_format_loop_unfiltered(_, _)
swift_format_loop_unfiltered(lines, acc) ==
  IF lines = <<>> \/ acc.st.aborted THEN acc
  ELSE LET line == Head(lines)
           match == path_re_search(line)
       IN  IF match = <<>>
             THEN [acc EXCEPT !.st = abort(@)]
             ELSE swift_format_loop_unfiltered(Tail(lines),
                    [st |-> print(acc.st, " * %s", match), success |-> FALSE])

\* The loop over stderr.splitlines(): acc carries the process state and
\* swift_format_success.
RECURSIVE swift_format_loop(_, _)
swift_format_loop(lines, acc) ==
  IF lines = <<>> \/ acc.st.aborted THEN acc
  ELSE LET line == Head(lines)
           match == path_re_search(line)
       IN  IF ignore_re_search(line)
             THEN swift_format_loop(Tail(lines), acc)
           ELSE IF match = <<>>
             THEN [acc EXCEPT !.st = abort(@)]
           ELSE swift_format_loop(Tail(lines),
                  [st |-> print(acc.st, " * %s", match), success |-> FALSE])

check_swift_format(st, root, r) ==
  LET s1 == print(st, "Checking swift-format lint: ", <<>>)
      s2 == cd_to_git_root(s1, root)
      s3 == exec_cmd(s2, SwiftFormatCmd, r)
      acc == IF r.stderr # <<>>
               THEN swift_format_loop(r.stderr, [st |-> s3, success |-> TRUE])
               ELSE [st |-> s3, success |-> TRUE]
  IN  IF s2.aborted THEN s2
      ELSE IF acc.st.aborted THEN acc.st
      ELSE IF acc.success
        THEN print(acc.st, "ok", <<>>)
        ELSE print([acc.st EXCEPT !.ready = FALSE], "swift-format lint failed", <<>>)

\* A variant of pod_install that records a failed install in release_ready
\* instead of asserting.
pod_install_flagging(st, root, r) ==
  LET s1 == print(st, "Pod update: ", <<>>)
      s2 == cd_to_git_root(s1, root)
      s3 == exec_cmd(chdir_Example(s2), PodInstallCmd, r)
  IN  IF s2.aborted THEN s2
      ELSE IF r.exit_code # 0
        THEN [print(s3, "pod install failed", <<>>) EXCEPT !.ready = FALSE]
      ELSE print(s3, "ok", <<>>)

pod_install(st, root, r) ==
  LET s1 == print(st, "Pod update: ", <<>>)
      s2 == cd_to_git_root(s1, root)
      s3 == exec_cmd(chdir_Example(s2), PodInstallCmd, r)
  IN  IF s2.aborted THEN s2
      ELSE IF r.exit_code # 0 THEN abort(s3)
      ELSE print(s3, "ok", <<>>)

\* A variant of documentation_loop that assigns the comparison's result to
\* release_ready.
RECURSIVE documentation_loop_assigning(_, _)
documentation_loop_assigning(lines, st) ==
  IF lines = <<>> THEN abort(st)
  ELSE LET line == Head(lines)
           percentage == percentage_re_search(line)
       IN  IF percentage # ""
             THEN IF percentage # "100"
                    THEN [print(st, "ERROR: Documentation incomplete: %r", line)
                            EXCEPT !.ready = FALSE]
                    ELSE [print(st, "ok", <<>>) EXCEPT !.ready = TRUE]
             ELSE documentation_loop_assigning(Tail(lines), st)

\* A variant of documentation_loop that does not return at a 100% line.
RECURSIVE documentation_loop_scanning(_, _)
documentation_loop_scanning(lines, st) ==
  IF lines = <<>> THEN abort(st)
  ELSE LET line == Head(lines)
           percentage == percentage_re_search(line)
           rest == documentation_loop_scanning(Tail(lines), st)
       IN  IF percentage # ""
             THEN IF percentage # "100"
                    THEN [print(st, "ERROR: Documentation incomplete: %r", line)
                            EXCEPT !.ready = FALSE]
                    ELSE IF rest.aborted THEN print(st, "ok", <<>>) ELSE rest
             ELSE rest

\* The loop over stdout.splitlines(); it returns at the first matching line
\* and falls through to assert False when no line matches.
RECURSIVE documentation_loop(_, _)
documentation_loop(lines, st) ==
  IF lines = <<>> THEN abort(st)
  ELSE LET line == Head(lines)
           percentage == percentage_re_search(line)
       IN  IF percentage # ""
             THEN IF percentage # "100"
                    THEN [print(st, "ERROR: Documentation incomplete: %r", line)
                            EXCEPT !.ready = FALSE]
                    ELSE print(st, "ok", <<>>)
             ELSE documentation_loop(Tail(lines), st)

check_documentation_percentage(st, root, r) ==
  LET s1 == print(st, "Documentation coverage: ", <<>>)
      s2 == cd_to_git_root(s1, root)
      s3 == exec_cmd(s2, JazzyCmd, r)
  IN  IF s2.aborted THEN s2
      ELSE IF r.exit_code # 0 THEN abort(s3)
      ELSE documentation_loop(r.stdout, s3)

\* json.loads(stdout): the text is JSON or the call raises.
json_loads(stdout) == [raised |-> ~stdout.json, value |-> stdout.value]

\* A variant of bad_files_loop that compares with <= .
RECURSIVE bad_files_loop_inclusive(_, _)
bad_files_loop_inclusive(files, acc) ==
  IF files = <<>> \/ acc.aborted THEN acc
  ELSE LET f == Head(files)
           path == path_re_search(f.path)
       IN  IF path = <<>>
             THEN [acc EXCEPT !.aborted = TRUE]
           ELSE IF path \in untestable_files
             THEN bad_files_loop_inclusive(Tail(files), acc)
           ELSE IF f.lineCoverage <= minimum_code_coverage
             THEN bad_files_loop_inclusive(Tail(files),
                    [acc EXCEPT !.bad_files = Append(@, <<path, f.lineCoverage>>)])
           ELSE bad_files_loop_inclusive(Tail(files), acc)

\* The loop over files building bad_files; acc carries bad_files and whether
\* an assert failed.
RECURSIVE bad_files_loop(_, _)
bad_files_loop(files, acc) ==
  IF files = <<>> \/ acc.aborted THEN acc
  ELSE LET f == Head(files)
           path == path_re_search(f.path)
       IN  IF path = <<>>
             THEN [acc EXCEPT !.aborted = TRUE]
           ELSE IF path \in untestable_files
             THEN bad_files_loop(Tail(files), acc)
           ELSE IF f.lineCoverage < minimum_code_coverage
             THEN bad_files_loop(Tail(files),
                    [acc EXCEPT !.bad_files = Append(@, <<path, f.lineCoverage>>)])
           ELSE bad_files_loop(Tail(files), acc)

\* The loop over bad_files printing each and clearing release_ready.
RECURSIVE report_bad_files(_, _)
report_bad_files(bad_files, st) ==
  IF bad_files = <<>> THEN st
  ELSE report_bad_files(Tail(bad_files),
         [print(st, " * %s : %s", Head(bad_files)) EXCEPT !.ready = FALSE])

check_code_coverage(st, root, build, xccov) ==
  LET s1 == print(st, "Code coverage: ", <<>>)
      s2 == cd_to_git_root(s1, root)
      s3 == exec_cmd(chdir_Example(s2), BuildCmd, build)
      xcresult == xcresult_re_search(build.stdout)
      s4 == exec_cmd(s3, XccovCmd, xccov)
      loaded == json_loads(xccov.stdout)
      report == loaded.value
      files == report[1].files
      acc == bad_files_loop(files, [bad_files |-> <<>>, aborted |-> FALSE])
  IN  IF s2.aborted THEN s2
      ELSE IF build.exit_code # 0 THEN abort(s3)
      ELSE IF xcresult = <<>> THEN abort(s3)
      ELSE IF loaded.raised THEN abort(s4)
      ELSE IF Len(report) # 1 THEN abort(s4)
      ELSE IF ~(Len(files) > MinReportFiles) THEN abort(s4)
      ELSE IF acc.aborted THEN abort(s4)
      ELSE IF Len(acc.bad_files) > 0
        THEN report_bad_files(acc.bad_files,
               print(s4, "Minimum code coverage of %r not met by the following files:",
                     <<minimum_code_coverage>>))
        ELSE s4

\* A variant of check_todo_count that fails the release on a TODO without a
\* bug reference.
check_todo_count_gating(st, pattern, root, without, with) ==
  LET s1 == print(st, "TODO count (%r): ", <<pattern>>)
      s2 == cd_to_git_root(s1, root)
      s3 == print(s2, "find . -name %r ...|egrep -v 'b/'|wc -l", <<pattern>>)
      s4 == exec_cmd(s3, TodoWithoutBugCmd, without)
      s5 == print(s4, "without bug: %s", strip(without.stdout))
      s6 == exec_cmd(s5, TodoWithBugCmd, with)
      s7 == print(s6, "; with bug: %s", strip(with.stdout))
  IN  IF s2.aborted THEN s2
      ELSE IF strip(without.stdout) # <<"0">>
        THEN [s7 EXCEPT !.ready = FALSE]
        ELSE s7

check_todo_count(st, pattern, root, without, with) ==
  LET s1 == print(st, "TODO count (%r): ", <<pattern>>)
      s2 == cd_to_git_root(s1, root)
      s3 == print(s2, "find . -name %r ...|egrep -v 'b/'|wc -l", <<pattern>>)
      s4 == exec_cmd(s3, TodoWithoutBugCmd, without)
      s5 == print(s4, "without bug: %s", strip(without.stdout))
      s6 == exec_cmd(s5, TodoWithBugCmd, with)
  IN  IF s2.aborted THEN s2
      ELSE print(s6, "; with bug: %s", strip(with.stdout))

-----------------------------------------------------------------------------
(* update_build_hash.py: the functions.                                    *)

\* Each returns the process state and the function's return value.
which_git(st, r) ==
  LET s1 == exec_cmd(st, WhichGitCmd, r)
  IN  IF r.exit_code # 0
        THEN [st |-> abort(s1), value |-> <<>>]
        ELSE [st |-> s1, value |-> rstrip(r.stdout)]

git_sha(st, r) ==
  LET s1 == exec_cmd(st, GitShaCmd, r)
  IN  IF r.exit_code # 0
        THEN [st |-> abort(s1), value |-> <<>>]
        ELSE [st |-> s1, value |-> rstrip(r.stdout)]

git_date(st, r) ==
  LET s1 == exec_cmd(st, GitDateCmd, r)
  IN  IF r.exit_code # 0
        THEN [st |-> abort(s1), value |-> <<>>]
        ELSE [st |-> s1, value |-> rstrip(r.stdout)]

\* A variant of BuildHashJson that formats sha into both fields.
BuildHashJson_sha_twice(h, d) ==
     <<"{", "\n", " ", " ", "\"", "buildHash", "\"", ":", " ", "\"">>
  \o h
  \o <<"\"", ",", "\n", " ", " ", "\"", "buildDate", "\"", ":", " ", "\"">>
  \o h
  \o <<"\"", "\n", "}", "\n">>

\* The f-string written to the file.
BuildHashJson(h, d) ==
     <<"{", "\n", " ", " ", "\"", "buildHash", "\"", ":", " ", "\"">>
  \o h
  \o <<"\"", ",", "\n", " ", " ", "\"", "buildDate", "\"", ":", " ", "\"">>
  \o d
  \o <<"\"", "\n", "}", "\n">>

-----------------------------------------------------------------------------
(* What the external tools can return.                                     *)

SeqsUpTo(S, n) == UNION {[1..k -> S] : k \in 0..n}

Result(code, out, err) == [exit_code |-> code, stdout |-> out, stderr |-> err]

GitRootResults ==
  { Result(0, <<"/repo", "\n">>, <<>>),
    Result(128, <<>>, <<"fatal: not a git repository", "\n">>) }

PreCommitResults ==
  { Result(0, <<>>, <<>>),
    Result(1, <<"pre-commit: formatting differs", "\n">>, <<>>) }

\* swift-format's diagnostics: a warning, a warning of the ignored rule, and
\* a line that names no file of the SDK.
LintWarning == <<"./", "JacquardSDK/", "Classes/Tag.swift:3:1: warning: [LineLength]">>
LintIgnored == <<"JacquardSDK/", "Classes/Tag.swift:1:1: warning: [", "NoBlockComments", "]">>
LintOther == <<"swift-format: error: could not read configuration">>

LintLines == {LintWarning, LintIgnored, LintOther}

SwiftFormatResults ==
  { Result(0, <<>>, err) : err \in SeqsUpTo(LintLines, MaxLintLines) }

PodInstallResults ==
  { Result(0, <<>>, <<>>), Result(1, <<>>, <<"pod install failed">>) }

\* jazzy's output lines: the coverage line at 100% and at 99%, and a line
\* that is no coverage line.
Doc100 == <<"100", "% documentation coverage", " with 0 undocumented symbols">>
Doc99 == <<"99", "% documentation coverage", " with 3 undocumented symbols">>
DocOther == <<"building site">>

DocLines == {Doc100, Doc99, DocOther}

JazzyResults ==
  { Result(1, <<>>, <<"jazzy: error">>) }
  \cup { Result(0, out, <<>>) : out \in SeqsUpTo(DocLines, MaxDocLines) }

\* The xcodebuild pipeline ends in grep, so it exits 0 exactly when some line
\* holds ".xcresult" after another character.
BuildResults ==
  { Result(1, <<>>, <<>>),
    Result(0, << <<"Test session results: ", "/", "Users/dev/Logs/Test", ".xcresult">> >>, <<>>),
    Result(0, << <<"Test session results: Test", ".xcresult">> >>, <<>>) }

CoverageFile(path, coverage) == [path |-> path, lineCoverage |-> coverage]

FillerNames ==
  <<"Classes/A.swift", "Classes/B.swift", "Classes/C.swift", "Classes/D.swift",
    "Classes/E.swift", "Classes/F.swift", "Classes/G.swift", "Classes/H.swift">>

FillerFiles(n) ==
  [i \in 1..n |-> CoverageFile(<<"/repo/", "JacquardSDK/", FillerNames[i]>>, 100000)]

\* The files of a report that vary: an exempt file with coverage 0.1, files
\* at 0.8 and at 0.79999, and a file outside the SDK.
VariedFiles ==
  { CoverageFile(<<"/repo/", "JacquardSDK/", "Protobuf/jacquard.pb.swift">>, 10000),
    CoverageFile(<<"/repo/", "JacquardSDK/", "Classes/Tag.swift">>, 80000),
    CoverageFile(<<"/repo/", "JacquardSDK/", "Classes/Log.swift">>, 79999),
    CoverageFile(<<"/repo/", "Example/", "Tests/Fake.swift">>, 100000) }

Product(files) == [files |-> files]

\* Reports of no product, of two products, of one product with five files,
\* and of one product with six files of which the first ones vary.
CoverageReports ==
  { <<>>,
    <<Product(FillerFiles(MinReportFiles + 1)), Product(<<>>)>>,
    <<Product(FillerFiles(MinReportFiles))>> }
  \cup { <<Product(v \o FillerFiles(MinReportFiles + 1 - Len(v)))>> :
           v \in SeqsUpTo(VariedFiles, MaxVariedFiles) }

XccovResults ==
  { Result(1, [json |-> FALSE, value |-> <<>>], <<"xccov: error">>) }
  \cup { Result(0, [json |-> TRUE, value |-> rep], <<>>) : rep \in CoverageReports }

\* The two wc -l counts of one check_todo_count call.
TodoResults ==
  { <<Result(0, <<" ", "3", "\n">>, <<>>), Result(0, <<" ", "1", "\n">>, <<>>)>>,
    <<Result(0, <<"0", "\n">>, <<>>), Result(0, <<"0", "\n">>, <<>>)>> }

WhichGitResults ==
  { Result(0, <<"/usr/bin/git", "\n">>, <<>>),
    Result(1, <<>>, <<"xcrun: error", "\n">>) }

GitShaResults ==
  { Result(0, <<"abc1234", "\n">>, <<>>),
    Result(0, <<"0f3e9d1", "\n">>, <<>>),
    Result(128, <<>>, <<"fatal: bad revision", "\n">>) }

GitDateResults ==
  { Result(0, <<"2021-01-01", " ", "00:00:00", " ", "+0000", "\n">>, <<>>),
    Result(0, <<"2022-06-30", " ", "23:59:59", " ", "-0700", "\n">>, <<>>),
    Result(128, <<>>, <<"fatal: bad revision", "\n">>) }

\* What BuildHash.json holds before the run.
NoFile == [exists |-> FALSE, content |-> <<>>]

OldFile ==
  [exists |-> TRUE,
   content |-> <<"{", "\"", "buildHash", "\"", ":", "\"", "fffffff", "\"", ",",
                 "\"", "buildDate", "\"", ":", "\"", "2020-02-02", "\"", ",",
                 "\"", "branch", "\"", ":", "\"", "main", "\"", "}">>]

PriorFiles == {NoFile, OldFile}

-----------------------------------------------------------------------------
(* The processes.                                                          *)

Init ==
  /\ program \in {"release_readiness", "update_build_hash"}
  /\ pc = IF program = "release_readiness" THEN "check_pre_commit" ELSE "which_git"
  /\ release_ready = TRUE
  /\ cwd = <<"/start">>
  /\ printed = <<>>
  /\ cmds = <<>>
  /\ exit_code = -1
  /\ file \in IF program = "update_build_hash" THEN PriorFiles ELSE {OldFile}
  /\ handle = [open |-> FALSE, buffer |-> <<>>]
  /\ git = <<>>
  /\ sha = <<>>
  /\ date = <<>>

\* The process state a function of the scripts starts from.
Current ==
  [aborted |-> FALSE, ready |-> release_ready, printed |-> printed,
   cwd |-> cwd, cmds |-> cmds]

\* The process state after a top-level call: an uncaught exception ends the
\* process with status 1, otherwise control moves to the next statement.
Return(st, next) ==
  /\ release_ready' = st.ready
  /\ printed' = st.printed
  /\ cwd' = st.cwd
  /\ cmds' = st.cmds
  /\ pc' = IF st.aborted THEN "aborted" ELSE next
  /\ exit_code' = IF st.aborted THEN 1 ELSE exit_code
  /\ UNCHANGED program

Checker(at) == program = "release_readiness" /\ pc = at

Stamper(at) == program = "update_build_hash" /\ pc = at

CheckPreCommit ==
  /\ Checker("check_pre_commit")
  /\ \E root \in GitRootResults, r \in PreCommitResults :
       Return(check_pre_commit(Current, root, r), "check_swift_format")
  /\ UNCHANGED <<file, handle, git, sha, date>>

CheckSwiftFormat ==
  /\ Checker("check_swift_format")
  /\ \E root \in GitRootResults, r \in SwiftFormatResults :
       Return(check_swift_format(Current, root, r), "pod_install")
  /\ UNCHANGED <<file, handle, git, sha, date>>

PodInstall ==
  /\ Checker("pod_install")
  /\ \E root \in GitRootResults, r \in PodInstallResults :
       Return(pod_install(Current, root, r), "check_documentation_percentage")
  /\ UNCHANGED <<file, handle, git, sha, date>>

CheckDocumentationPercentage ==
  /\ Checker("check_documentation_percentage")
  /\ \E root \in GitRootResults, r \in JazzyResults :
       Return(check_documentation_percentage(Current, root, r), "check_code_coverage")
  /\ UNCHANGED <<file, handle, git, sha, date>>

CheckCodeCoverage ==
  /\ Checker("check_code_coverage")
  /\ \E root \in GitRootResults, build \in BuildResults, xccov \in XccovResults :
       Return(check_code_coverage(Current, root, build, xccov), "check_todo_count_swift")
  /\ UNCHANGED <<file, handle, git, sha, date>>

CheckTodoCountSwift ==
  /\ Checker("check_todo_count_swift")
  /\ \E root \in GitRootResults, r \in TodoResults :
       Return(check_todo_count(Current, "*.swift", root, r[1], r[2]), "check_todo_count_md")
  /\ UNCHANGED <<file, handle, git, sha, date>>

CheckTodoCountMd ==
  /\ Checker("check_todo_count_md")
  /\ \E root \in GitRootResults, r \in TodoResults :
       Return(check_todo_count(Current, "*.md", root, r[1], r[2]), "verdict")
  /\ UNCHANGED <<file, handle, git, sha, date>>

\* A variant of Verdict without exit(1).
Verdict_without_exit ==
  /\ Checker("verdict")
  /\ IF release_ready
       THEN printed' = Append(printed,
              Chunk("Congratulations, the repository is release ready!", <<>>))
       ELSE printed' = Append(printed,
              Chunk("The repository is not release ready. See errors above.", <<>>))
  /\ exit_code' = 0
  /\ pc' = "exited"
  /\ UNCHANGED <<program, release_ready, cwd, cmds, file, handle, git, sha, date>>

Verdict ==
  /\ Checker("verdict")
  /\ IF release_ready
       THEN /\ printed' = Append(printed,
                 Chunk("Congratulations, the repository is release ready!", <<>>))
            /\ exit_code' = 0
       ELSE /\ printed' = Append(printed,
                 Chunk("The repository is not release ready. See errors above.", <<>>))
            /\ exit_code' = 1
  /\ pc' = "exited"
  /\ UNCHANGED <<program, release_ready, cwd, cmds, file, handle, git, sha, date>>

WhichGit ==
  /\ Stamper("which_git")
  /\ \E r \in WhichGitResults :
       LET ret == which_git(Current, r)
       IN  /\ Return(ret.st, "git_sha")
           /\ git' = IF ret.st.aborted THEN git ELSE ret.value
  /\ UNCHANGED <<file, handle, sha, date>>

GitSha ==
  /\ Stamper("git_sha")
  /\ \E r \in GitShaResults :
       LET ret == git_sha(Current, r)
       IN  /\ Return(ret.st, "git_date")
           /\ sha' = IF ret.st.aborted THEN sha ELSE ret.value
  /\ UNCHANGED <<file, handle, git, date>>

GitDate ==
  /\ Stamper("git_date")
  /\ \E r \in GitDateResults :
       LET ret == git_date(Current, r)
       IN  /\ Return(ret.st, "cd_to_git_root")
           /\ date' = IF ret.st.aborted THEN date ELSE ret.value
  /\ UNCHANGED <<file, handle, git, sha>>

CdToGitRoot ==
  /\ Stamper("cd_to_git_root")
  /\ \E root \in GitRootResults :
       Return(cd_to_git_root(Current, root), "open")
  /\ UNCHANGED <<file, handle, git, sha, date>>

\* open("Example/JacquardSDK/BuildHash.json", "w") creates or truncates the
\* file, or raises when the path cannot be opened.
OpenFile ==
  /\ Stamper("open")
  /\ \E opened \in BOOLEAN :
       IF opened
         THEN /\ file' = [exists |-> TRUE, content |-> <<>>]
              /\ handle' = [open |-> TRUE, buffer |-> <<>>]
              /\ Return(Current, "write")
         ELSE /\ UNCHANGED <<file, handle>>
              /\ Return(abort(Current), "write")
  /\ UNCHANGED <<git, sha, date>>

\* file.write(...): the text goes to the file object's buffer.
WriteFile ==
  /\ Stamper("write")
  /\ handle' = [handle EXCEPT !.buffer = @ \o BuildHashJson(sha, date)]
  /\ pc' = "exit"
  /\ UNCHANGED <<program, release_ready, cwd, printed, cmds, exit_code, file,
                 git, sha, date>>

\* The end of the script: the interpreter flushes and closes the file object.
Exit ==
  /\ Stamper("exit")
  /\ file' = [file EXCEPT !.content = @ \o handle.buffer]
  /\ handle' = [open |-> FALSE, buffer |-> <<>>]
  /\ exit_code' = 0
  /\ pc' = "exited"
  /\ UNCHANGED <<program, release_ready, cwd, printed, cmds, git, sha, date>>

Next ==
  \/ CheckPreCommit
  \/ CheckSwiftFormat
  \/ PodInstall
  \/ CheckDocumentationPercentage
  \/ CheckCodeCoverage
  \/ CheckTodoCountSwift
  \/ CheckTodoCountMd
  \/ Verdict
  \/ WhichGit
  \/ GitSha
  \/ GitDate
  \/ CdToGitRoot
  \/ OpenFile
  \/ WriteFile
  \/ Exit

Spec == Init /\ [][Next]_vars

-----------------------------------------------------------------------------
(* The vocabulary of the properties: what the tools reported, read from    *)
(* the recorded Command Results.                                           *)

IsChecker == program = "release_readiness"

IsStamper == program = "update_build_hash"

Ran(cmd) == \E i \in DOMAIN cmds : cmds[i].cmd = cmd

ResultOf(cmd) == cmds[CHOOSE i \in DOMAIN cmds : cmds[i].cmd = cmd]

CmdNames(cs) == [i \in DOMAIN cs |-> cs[i].cmd]

HasToken(line, tok) == \E k \in DOMAIN line : line[k] = tok

IsIgnoredLine(line) == HasToken(line, "NoBlockComments")

\* The part of a text from its first "JacquardSDK/" on.
SdkPath(s) ==
  LET i == CHOOSE k \in DOMAIN s :
             s[k] = "JacquardSDK/" /\ \A j \in 1..(k - 1) : s[j] # "JacquardSDK/"
  IN  SubSeq(s, i, Len(s))

IsCoverageLine(line) ==
  Len(line) >= 2 /\ line[1] \in {"100", "99", "0"} /\ line[2] = "% documentation coverage"

CoverageLines(out) == {i \in DOMAIN out : IsCoverageLine(out[i])}

FirstCoverageLine(out) ==
  out[CHOOSE i \in CoverageLines(out) : \A j \in CoverageLines(out) : i <= j]

\* A file of the coverage report that fails the threshold.
Failing(f) ==
  /\ HasToken(f.path, "JacquardSDK/")
  /\ SdkPath(f.path) \notin untestable_files
  /\ f.lineCoverage < 80000

ReportFiles(r) == r.stdout.value[1].files

PreCommitPassed == ResultOf(PreCommitCmd).exit_code = 0

LintPassed ==
  LET err == ResultOf(SwiftFormatCmd).stderr
  IN  \A i \in DOMAIN err : IsIgnoredLine(err[i])

DocsPassed ==
  LET out == ResultOf(JazzyCmd).stdout
  IN  CoverageLines(out) # {} /\ FirstCoverageLine(out)[1] = "100"

CoveragePassed ==
  LET files == ReportFiles(ResultOf(XccovCmd))
  IN  \A k \in DOMAIN files : ~Failing(files[k])

AllPassed == PreCommitPassed /\ LintPassed /\ DocsPassed /\ CoveragePassed

AfterCoverage ==
  pc \in {"check_todo_count_swift", "check_todo_count_md", "verdict", "exited"}

-----------------------------------------------------------------------------
(* Properties.                                                             *)

\* C1: once the four quality checks have run, and through both TODO-count
\* runs to the end of the program, release_ready is true if and only if the
\* pre-commit script exited 0, every lint line was an ignored one, the
\* documentation coverage was 100 and no non-exempt file was below 0.8.
C1_FlagIffAllChecksPassed ==
  (IsChecker /\ AfterCoverage) => (release_ready <=> AllPassed)

\* A run that ended not ready although only the coverage check failed, with
\* TODOs counted.
C1_Witness ==
  /\ IsChecker /\ pc = "exited" /\ ~release_ready
  /\ PreCommitPassed /\ LintPassed /\ DocsPassed /\ ~CoveragePassed
  /\ ResultOf(TodoWithoutBugCmd).stdout = <<" ", "3", "\n">>

\* C2: release_ready starts true and no step sets it back to true.
C2_FlagMonotonic ==
  (release_ready = TRUE) /\ [][release_ready' => release_ready]_vars

\* A run in which the pre-commit check failed and the later documentation
\* and coverage checks passed.
C2_Witness ==
  /\ IsChecker /\ pc = "exited" /\ ~release_ready
  /\ ~PreCommitPassed /\ LintPassed /\ DocsPassed /\ CoveragePassed

SummaryReady == Chunk("Congratulations, the repository is release ready!", <<>>)

SummaryNotReady == Chunk("The repository is not release ready. See errors above.", <<>>)

\* C3: at its end the Readiness Checker has printed the summary line and
\* exits 0 if release_ready is true and 1 otherwise; it exits 0 only when no
\* check has failed.
C3_ExitCode ==
  IsChecker =>
    /\ pc = "exited" =>
         /\ printed # <<>>
         /\ IF release_ready
              THEN exit_code = 0 /\ printed[Len(printed)] = SummaryReady
              ELSE exit_code = 1 /\ printed[Len(printed)] = SummaryNotReady
    /\ exit_code = 0 => (pc = "exited" /\ release_ready /\ AllPassed)

\* A run that ended with exit code 1 because the lint check failed.
C3_Witness ==
  /\ IsChecker /\ pc = "exited" /\ exit_code = 1
  /\ PreCommitPassed /\ ~LintPassed

\* The commands a step has run: those recorded by it.
NewCmds == SubSeq(cmds', Len(cmds) + 1, Len(cmds'))

NewPrinted == SubSeq(printed', Len(printed) + 1, Len(printed'))

RootFailed(c) == c.cmd = GitRootCmd /\ c.exit_code # 0

\* The four queries of the Build Stamper, all answered with exit status 0.
StamperQueriesSucceeded ==
  /\ CmdNames(cmds) = <<WhichGitCmd, GitShaCmd, GitDateCmd, GitRootCmd>>
  /\ \A i \in DOMAIN cmds : cmds[i].exit_code = 0

\* C4: a step in which rev-parse --show-toplevel exits non-zero runs no
\* further command, aborts the process and leaves the output file and the
\* file object as they were; the file is opened, truncated or written only
\* by the Build Stamper, and only after its tool-location, short-hash,
\* commit-date and root queries have all succeeded, in that order; an
\* aborted process changes nothing any more.
C4_RootFailureAborts ==
  [][ /\ (\E i \in DOMAIN NewCmds : RootFailed(NewCmds[i])) =>
            /\ RootFailed(cmds'[Len(cmds')])
            /\ pc' = "aborted" /\ exit_code' # 0
            /\ file' = file /\ handle' = handle
      /\ (file' # file \/ handle' # handle) =>
            (IsStamper /\ StamperQueriesSucceeded)
      /\ pc = "aborted" => UNCHANGED vars ]_vars

\* The Build Stamper aborted because the root query failed, after the other
\* three queries had succeeded, and the old file is still there.
C4_Witness ==
  /\ IsStamper /\ pc = "aborted" /\ Len(cmds) = 4
  /\ RootFailed(cmds[4]) /\ file = OldFile

-----------------------------------------------------------------------------
(* Reading BuildHash.json back: a JSON object of string members.           *)

JsonFail == [ok |-> FALSE, members |-> <<>>]

RECURSIVE JsonSkipWs(_, _)
JsonSkipWs(s, i) ==
  IF i <= Len(s) /\ s[i] \in {" ", "\n"} THEN JsonSkipWs(s, i + 1) ELSE i

\* The index of the quote closing a string whose text starts at i, 0 when
\* the string is not closed or holds a raw line break.
RECURSIVE JsonStringEnd(_, _)
JsonStringEnd(s, i) ==
  IF i > Len(s) THEN 0
  ELSE IF s[i] = "\"" THEN i
  ELSE IF s[i] = "\n" THEN 0
  ELSE JsonStringEnd(s, i + 1)

RECURSIVE JsonMembers(_, _, _)
JsonMembers(s, i, acc) ==
  LET k0 == JsonSkipWs(s, i)
      k1 == JsonStringEnd(s, k0 + 1)
      c  == JsonSkipWs(s, k1 + 1)
      v0 == JsonSkipWs(s, c + 1)
      v1 == JsonStringEnd(s, v0 + 1)
      e  == JsonSkipWs(s, v1 + 1)
      acc2 == Append(acc, <<SubSeq(s, k0 + 1, k1 - 1), SubSeq(s, v0 + 1, v1 - 1)>>)
  IN  IF k0 > Len(s) \/ s[k0] # "\"" THEN JsonFail
      ELSE IF k1 = 0 THEN JsonFail
      ELSE IF c > Len(s) \/ s[c] # ":" THEN JsonFail
      ELSE IF v0 > Len(s) \/ s[v0] # "\"" THEN JsonFail
      ELSE IF v1 = 0 THEN JsonFail
      ELSE IF e > Len(s) THEN JsonFail
      ELSE IF s[e] = "," THEN JsonMembers(s, e + 1, acc2)
      ELSE IF s[e] = "}" /\ JsonSkipWs(s, e + 1) > Len(s)
        THEN [ok |-> TRUE, members |-> acc2]
      ELSE JsonFail

JsonObject(s) ==
  LET b == JsonSkipWs(s, 1)
  IN  IF b > Len(s) \/ s[b] # "{" THEN JsonFail ELSE JsonMembers(s, b + 1, <<>>)

\* The one line a git query printed, without its line terminator.
Returned(cmd) ==
  LET out == ResultOf(cmd).stdout IN SubSeq(out, 1, Len(out) - 1)

\* C5: after a successful Build Stamper run the file exists and parses as a
\* JSON object with exactly two members, buildHash and buildDate, whose
\* values are the short hash and the commit date as git printed them.
C5_StampRecord ==
  (IsStamper /\ pc = "exited") =>
    LET parsed == JsonObject(file.content)
    IN  /\ exit_code = 0
        /\ file.exists
        /\ parsed.ok
        /\ parsed.members = << <<<<"buildHash">>, Returned(GitShaCmd)>>,
                               <<<<"buildDate">>, Returned(GitDateCmd)>> >>

\* The run of the spec's example: hash abc1234, date 2021-01-01 00:00:00 +0000.
C5_Witness ==
  /\ IsStamper /\ pc = "exited"
  /\ Returned(GitShaCmd) = <<"abc1234">>
  /\ Returned(GitDateCmd) = <<"2021-01-01", " ", "00:00:00", " ", "+0000">>
  /\ JsonObject(file.content).ok

\* The " * path : coverage" lines among the print calls of a step.
BadFileLines ==
  LET idx == {i \in DOMAIN NewPrinted : NewPrinted[i].text = " * %s : %s"}
  IN  {NewPrinted[i].args : i \in idx}

\* C6: a coverage check that runs to its end lists a file of the report as
\* failing if and only if the file's SDK path is not in untestable_files and
\* its line coverage is below 0.8, and it sets release_ready false if and
\* only if there is such a file.
C6_CoverageThreshold ==
  [][ (IsChecker /\ pc = "check_code_coverage" /\ pc' = "check_todo_count_swift") =>
        LET files == ReportFiles(cmds'[Len(cmds')])
        IN  /\ \A k \in DOMAIN files :
                 (<<SdkPath(files[k].path), files[k].lineCoverage>> \in BadFileLines)
                   <=> Failing(files[k])
            /\ release_ready' =
                 (release_ready /\ \A k \in DOMAIN files : ~Failing(files[k])) ]_vars

\* A coverage check passed by a report that holds an exempt file at 0.1 and
\* a file at exactly 0.8.
C6_Witness ==
  /\ IsChecker /\ pc = "check_todo_count_swift" /\ release_ready
  /\ LET files == ReportFiles(ResultOf(XccovCmd))
     IN  /\ \E k \in DOMAIN files :
              /\ SdkPath(files[k].path) \in untestable_files
              /\ files[k].lineCoverage = 10000
         /\ \E k \in DOMAIN files :
              /\ SdkPath(files[k].path) \notin untestable_files
              /\ files[k].lineCoverage = 80000

-----------------------------------------------------------------------------
(* Infrastructure failures and quality-gate failures.                      *)

HasBundlePath(out) ==
  \E i \in DOMAIN out :
    \E a, b \in DOMAIN out[i] : a < b /\ out[i][a] = "/" /\ out[i][b] = ".xcresult"

UnexpectedReport(out) ==
  \/ ~out.json
  \/ Len(out.value) # 1
  \/ Len(out.value[1].files) <= 5
  \/ \E k \in DOMAIN out.value[1].files :
       ~HasToken(out.value[1].files[k].path, "JacquardSDK/")

InfraFailure(c) ==
  \/ RootFailed(c)
  \/ c.cmd = PodInstallCmd /\ c.exit_code # 0
  \/ c.cmd = JazzyCmd /\ (c.exit_code # 0 \/ CoverageLines(c.stdout) = {})
  \/ c.cmd = BuildCmd /\ (c.exit_code # 0 \/ ~HasBundlePath(c.stdout))
  \/ c.cmd = XccovCmd /\ UnexpectedReport(c.stdout)

\* A lint line that is neither ignored nor names a file of the SDK.
UnexpectedLintLine(line) ==
  ~IsIgnoredLine(line) /\ ~HasToken(line, "JacquardSDK/")

LintUnexpected(c) ==
  c.cmd = SwiftFormatCmd /\ \E i \in DOMAIN c.stderr : UnexpectedLintLine(c.stderr[i])

CheckHeaders ==
  { "Pre_commit check: ", "Checking swift-format lint: ", "Pod update: ",
    "Documentation coverage: ", "Code coverage: ", "TODO count (%r): " }

\* C7: when a command of the Readiness Checker ends in an infrastructure
\* failure, it is the last command the process runs: the process is aborted
\* with a non-zero status, nothing is printed after the header of the check
\* that failed, and no summary line is printed.
C7_InfraFailureAborts ==
  IsChecker =>
    \A i \in DOMAIN cmds :
      InfraFailure(cmds[i]) =>
        /\ i = Len(cmds)
        /\ pc = "aborted"
        /\ exit_code = 1
        /\ printed[Len(printed)].text \in CheckHeaders
        /\ \A k \in DOMAIN printed : printed[k] \notin {SummaryReady, SummaryNotReady}

\* pod install failed after the pre-commit and lint checks had run.
C7_Witness ==
  /\ IsChecker /\ pc = "aborted"
  /\ cmds[Len(cmds)].cmd = PodInstallCmd /\ cmds[Len(cmds)].exit_code # 0
  /\ Ran(PreCommitCmd) /\ Ran(SwiftFormatCmd)

\* The commands of each check, and of the checks before a top-level statement.
CheckCmds(check) ==
  CASE check = "check_pre_commit" -> <<GitRootCmd, PreCommitCmd>>
    [] check = "check_swift_format" -> <<GitRootCmd, SwiftFormatCmd>>
    [] check = "pod_install" -> <<GitRootCmd, PodInstallCmd>>
    [] check = "check_documentation_percentage" -> <<GitRootCmd, JazzyCmd>>
    [] check = "check_code_coverage" -> <<GitRootCmd, BuildCmd, XccovCmd>>
    [] check = "check_todo_count_swift" -> <<GitRootCmd, TodoWithoutBugCmd, TodoWithBugCmd>>
    [] check = "check_todo_count_md" -> <<GitRootCmd, TodoWithoutBugCmd, TodoWithBugCmd>>

FixedOrder ==
  <<"check_pre_commit", "check_swift_format", "pod_install",
    "check_documentation_percentage", "check_code_coverage",
    "check_todo_count_swift", "check_todo_count_md">>

RECURSIVE CmdsOfFirst(_)
CmdsOfFirst(n) ==
  IF n = 0 THEN <<>> ELSE CmdsOfFirst(n - 1) \o CheckCmds(FixedOrder[n])

CmdsBefore(at) ==
  IF at \in {"verdict", "exited"}
    THEN CmdsOfFirst(Len(FixedOrder))
    ELSE CmdsOfFirst((CHOOSE n \in DOMAIN FixedOrder : FixedOrder[n] = at) - 1)

\* The statement of C8 as it stands: once release_ready has been set false
\* the run is never aborted.
C8_Original ==
  (IsChecker /\ ~release_ready) => pc # "aborted"

\* C8: once release_ready has been set false the run is aborted only by an
\* infrastructure failure or an unexpected lint line in a later check;
\* otherwise every check before the current statement has run in the fixed
\* order, the process can take its next step, and at its end it has printed
\* the not-ready summary and exits 1.
C8_QualityFailureContinues ==
  (IsChecker /\ ~release_ready) =>
    /\ pc = "aborted" =>
         (InfraFailure(cmds[Len(cmds)]) \/ LintUnexpected(cmds[Len(cmds)]))
    /\ pc # "aborted" => CmdNames(cmds) = CmdsBefore(pc)
    /\ pc \notin {"aborted", "exited"} => ENABLED Next
    /\ pc = "exited" => (exit_code = 1 /\ printed[Len(printed)] = SummaryNotReady)

\* The first check failed and the run went through every later check to the
\* verdict.
C8_Witness ==
  /\ IsChecker /\ pc = "exited" /\ ~PreCommitPassed
  /\ CmdNames(cmds) = CmdsBefore("exited")

\* The " * path" lines among the print calls of a step, in order.
RECURSIVE LintPrinted(_)
LintPrinted(p) ==
  IF p = <<>> THEN <<>>
  ELSE IF Head(p).text = " * %s"
    THEN <<Head(p).args>> \o LintPrinted(Tail(p))
    ELSE LintPrinted(Tail(p))

\* The SDK paths of the lines that are not ignored, up to the first
\* unexpected line.
RECURSIVE LintOffending(_)
LintOffending(err) ==
  IF err = <<>> THEN <<>>
  ELSE IF IsIgnoredLine(Head(err)) THEN LintOffending(Tail(err))
  ELSE IF UnexpectedLintLine(Head(err)) THEN <<>>
  ELSE <<SdkPath(Head(err))>> \o LintOffending(Tail(err))

LintRan == IsChecker /\ Ran(SwiftFormatCmd)

\* The statement of C9 as it stands: whenever the linter printed a line
\* without the ignored rule name, release_ready is false.
C9_Original ==
  (LintRan /\ ~LintPassed) => ~release_ready

\* C9: the lint check prints, for each line that does not hold the ignored
\* rule name and names a file of the SDK, the line from that path on; if a
\* line holds neither the ignored rule name nor such a path the process
\* aborts there with release_ready as it was; otherwise release_ready is set
\* false exactly when some line does not hold the ignored rule name.
C9_LintLines ==
  [][ (IsChecker /\ pc = "check_swift_format"
         /\ cmds'[Len(cmds')].cmd = SwiftFormatCmd) =>
        LET err == cmds'[Len(cmds')].stderr
        IN  /\ LintPrinted(NewPrinted) = LintOffending(err)
            /\ IF \E i \in DOMAIN err : UnexpectedLintLine(err[i])
                 THEN pc' = "aborted" /\ release_ready' = release_ready
                 ELSE /\ pc' = "pod_install"
                      /\ release_ready' =
                           (release_ready /\ \A i \in DOMAIN err : IsIgnoredLine(err[i])) ]_vars

\* The linter printed an ignored line and then a warning: the check failed
\* and printed one path.
C9_Witness ==
  /\ IsChecker /\ pc = "pod_install" /\ ~release_ready /\ PreCommitPassed
  /\ ResultOf(SwiftFormatCmd).stderr = <<LintIgnored, LintWarning>>
  /\ printed[Len(printed) - 1] = Chunk(" * %s", SdkPath(LintWarning))

\* C10: the documentation check aborts when jazzy's output has no coverage
\* line; otherwise it goes by the first coverage line alone: at 100 it prints
\* ok and leaves release_ready as it was, at any other number it prints the
\* diagnostic with that line and sets release_ready false.
C10_DocumentationPercentage ==
  [][ (IsChecker /\ pc = "check_documentation_percentage"
         /\ cmds'[Len(cmds')].cmd = JazzyCmd /\ cmds'[Len(cmds')].exit_code = 0) =>
        LET out == cmds'[Len(cmds')].stdout
        IN  IF CoverageLines(out) = {}
              THEN pc' = "aborted"
              ELSE /\ pc' = "check_code_coverage"
                   /\ IF FirstCoverageLine(out)[1] = "100"
                        THEN /\ release_ready' = release_ready
                             /\ printed'[Len(printed')] = Chunk("ok", <<>>)
                        ELSE /\ release_ready' = FALSE
                             /\ printed'[Len(printed')] =
                                  Chunk("ERROR: Documentation incomplete: %r",
                                        FirstCoverageLine(out)) ]_vars

\* jazzy printed a 100% line and then a 99% line, and the check passed.
C10_Witness ==
  /\ IsChecker /\ pc = "check_code_coverage" /\ release_ready
  /\ ResultOf(JazzyCmd).stdout = <<Doc100, Doc99>>
  /\ printed[Len(printed)] = Chunk("ok", <<>>)

====
